---- MODULE Spec2Model ----
(***************************************************************************)
(* Workspace task state machine, dispatcher and backup recorder of the     *)
(* CodeArtifact origin control toolkit (src/toolkit/workspace.py,          *)
(* src/apply_package_configurations.py, src/toolkit/backup_manager.py).    *)
(*                                                                         *)
(* A string is the sequence of its dash-free segments and its dashes:      *)
(* "a-b" is <<"a", "-", "b">>, "" is <<>>.  Joining strings is sequence    *)
(* concatenation, so the file name pattern is computed, not assumed.       *)
(***************************************************************************)
EXTENDS Integers, Sequences, FiniteSets, TLC

\* ------------------------------------------------------------------ bounds
\* rows of an input file
MaxRecords == 2
\* worker threads
NumWorkers == 2

\* ------------------------------------------------------- records and names
Dash == <<"-">>

CSV_HEADER == <<"domain", "repository", "format", "namespace", "package", "upstream", "publish">>

ALLOWED_FLAG_VALUES == {"ALLOW", "BLOCK"}

\* field values the input rows are drawn from
Domains == {<<"dom">>}
Repositories == {<<"repo">>}
Formats == {<<"npm">>}
Namespaces == {<<>>, <<"a">>, <<"a", "-", "b">>}
Packages == {<<"c">>, <<"b", "-", "c">>}

Records(nss, pkgs, ups, pubs) ==
    [domain : Domains, repository : Repositories, format : Formats,
     namespace : nss, package : pkgs, upstream : ups, publish : pubs]

\* the composite key of a row
CompositeKey(line) ==
    <<line.domain, line.repository, line.format, line.namespace, line.package>>

\* '{domain}-{repository}-{format}-{namespace}-{package}'.format(...)
FILE_NAME_PATTERN(line) ==
    line.domain \o Dash \o line.repository \o Dash \o line.format \o Dash
        \o line.namespace \o Dash \o line.package

\* csv.DictWriter(fieldnames=CSV_HEADER).writerow(line): the fields in header order
writerow(line) == [i \in 1..Len(CSV_HEADER) |-> line[CSV_HEADER[i]]]

\* csv.DictReader(fieldnames=CSV_HEADER): the first row as a dict
DictRead(row) ==
    [domain |-> row[1], repository |-> row[2], format |-> row[3], namespace |-> row[4],
     package |-> row[5], upstream |-> row[6], publish |-> row[7]]

\* sequences over S of length at most n
SeqUpTo(S, n) == UNION {[1..k -> S] : k \in 0..n}

\* ------------------------------------------------------------- directories
Folders == {"todo", "error", "done"}

NoFiles == [n \in {} |-> <<>>]

Put(dir, name, content) ==
    [n \in (DOMAIN dir) \cup {name} |-> IF n = name THEN content ELSE dir[n]]

Remove(dir, name) == [n \in (DOMAIN dir) \ {name} |-> dir[n]]

\* a workspace directory: the state folders it holds and the files of each
NewWorkspace == [dirs |-> Folders, todo |-> NoFiles, error |-> NoFiles, done |-> NoFiles]

\* os.listdir(folder), as a set (the order of a listing is unspecified)
listdir(w, folder) == DOMAIN w[folder]

\* os.path.exists(os.path.join(folder, filename))
exists(w, folder, filename) == folder \in w.dirs /\ filename \in DOMAIN w[folder]

\* shutil.move that copies the file and leaves the source in place
shutil_move_keeping_source(w, source, filename, destination) ==
    IF exists(w, destination, filename) \/ ~exists(w, source, filename)
    THEN [raised |-> TRUE, w |-> w]
    ELSE [raised |-> FALSE,
          w |-> [w EXCEPT ![destination] = Put(w[destination], filename, w[source][filename])]]

\* shutil.move(source, destination folder): refuses an existing destination,
\* fails on a missing source, else renames; [raised, w]
shutil_move(w, source, filename, destination) ==
    IF exists(w, destination, filename) \/ ~exists(w, source, filename)
    THEN [raised |-> TRUE, w |-> w]
    ELSE [raised |-> FALSE,
          w |-> [w EXCEPT ![destination] = Put(w[destination], filename, w[source][filename]),
                          ![source] = Remove(w[source], filename)]]

\* ------------------------------------------------- WorkspaceManager, pure part
\* is_workspace_clean: done holds a file, todo and error hold none
is_workspace_clean(w) ==
    listdir(w, "done") # {} /\ listdir(w, "todo") = {} /\ listdir(w, "error") = {}

\* should_recreate_files without its first test (the clean workspace)
should_recreate_files_no_clean_test(w) ==
    IF listdir(w, "error") # {} THEN FALSE
    ELSE IF listdir(w, "todo") # {} THEN FALSE
    ELSE TRUE

\* should_recreate_files without its test of todo
should_recreate_files_unless_error(w) ==
    IF is_workspace_clean(w) THEN FALSE
    ELSE IF listdir(w, "error") # {} THEN FALSE
    ELSE TRUE

should_recreate_files(w) ==
    IF is_workspace_clean(w) THEN FALSE
    ELSE IF listdir(w, "error") # {} THEN FALSE
    ELSE IF listdir(w, "todo") # {} THEN FALSE
    ELSE TRUE

\* os.listdir of a folder that does not exist raises: the listings that
\* should_recreate_files makes, in its order, with the short circuits of `and`
listing_raises(w) ==
    \/ "done" \notin w.dirs
    \/ listdir(w, "done") # {} /\ "todo" \notin w.dirs
    \/ listdir(w, "done") # {} /\ listdir(w, "todo") = {} /\ "error" \notin w.dirs
    \/ "error" \notin w.dirs
    \/ listdir(w, "error") = {} /\ "todo" \notin w.dirs

\* the loop of create_input_files: one open(..., 'w+') and writerow per row, in row order
RECURSIVE write_rows(_, _)
write_rows(todo, rows) ==
    IF rows = <<>> THEN todo
    ELSE write_rows(Put(todo, FILE_NAME_PATTERN(Head(rows)), writerow(Head(rows))), Tail(rows))

create_input_files(w, rows) ==
    IF ~should_recreate_files(w) THEN w
    ELSE [w EXCEPT !.todo = write_rows(w.todo, rows)]

\* line 99-101: the folder move_to_done (and reader) takes the file from
pick_source(w, filename) == IF exists(w, "todo", filename) THEN "todo" ELSE "error"

move_to_done(w, filename) == shutil_move(w, pick_source(w, filename), filename, "done")

\* move_to_error without its test of the destination
error_guard_dropped(w, filename) == TRUE

\* line 111: "if we aren't retrying an already failed task"
error_guard(w, filename) == ~exists(w, "error", filename)

\* move_to_error moving the file from todo whatever error holds
move_to_error_unguarded(w, filename) == shutil_move(w, "todo", filename, "error")

move_to_error(w, filename) ==
    IF error_guard(w, filename) THEN shutil_move(w, "todo", filename, "error")
    ELSE [raised |-> FALSE, w |-> w]

\* move_to_retry taking the file from todo, as move_to_error does
move_to_retry_from_todo(w, filename) == shutil_move(w, "todo", filename, "todo")

\* move_to_retry taking the file from done
move_to_retry_from_done(w, filename) == shutil_move(w, "done", filename, "todo")

move_to_retry(w, filename) == shutil_move(w, "error", filename, "todo")

\* reader(filename): the record of the file, looked up in todo, then in error
reader(w, filename) ==
    IF exists(w, pick_source(w, filename), filename)
    THEN [raised |-> FALSE, line |-> DictRead(w[pick_source(w, filename)][filename])]
    ELSE [raised |-> TRUE, line |-> <<>>]

\* hashlib.md5 of the text, taken as collision free: the digest stands for the text
md5(text) == [md5 |-> text]

\* -------------------------------------------------------------------- state
VARIABLES
    files,    \* the csv files outside the workspaces: path -> rows
    home,     \* whether the workspaces home directory exists
    tree,     \* the workspace directories under home: content hash -> workspace
    mgr,      \* the WorkspaceManager of the running process, or NoMgr
    last,     \* the last call of the main thread: [op, id, effect, again]
    wk,       \* the threads: thread -> [pc, op, id, source, from, task]
    rt,       \* per task file, how far the calls worker threads completed on it
              \* match move_to_error (file in todo), move_to_retry, move_to_done
              \* (see Remember)
    run,      \* the dispatch_work in progress: [phase, cfg, snapshot, queue, proc, calls]
    remote,   \* the restrictions CodeArtifact holds: composite key -> [upstream, publish]
    bk,       \* the BackupManager of the running process and its writer thread
    backups   \* the backup files on disk: content hash -> the lines flushed to the file

vars == <<files, home, tree, mgr, last, wk, rt, run, remote, bk, backups>>

Paths == {"in1", "in2"}

NoMgr == [input_file_path |-> "", content_hash |-> md5(<<>>)]

HasMgr == mgr.input_file_path # ""

NoCall == [op |-> "none", id |-> "", effect |-> "none", again |-> FALSE]

Threads == 1..NumWorkers

Idle == [pc |-> "idle", op |-> "none", id |-> <<>>, source |-> "", from |-> "", task |-> FALSE]

AllIdle == \A t \in Threads : wk[t].pc = "idle"

NoCfg == [retry_failed |-> FALSE, dry_run |-> FALSE, no_backup |-> FALSE,
          ask_confirmation |-> FALSE, conserve_workspace |-> FALSE,
          delete_workspace |-> FALSE]

\* nothing printed by line 66
NoTotals == [printed |-> FALSE, processed |-> 0, successes |-> 0, failures |-> 0]

\* prev tells of the run before: "fresh_kept" and "fresh_deleted" when it was a run
\* without --retry-failed and prompts over a workspace it populated, which it left
\* or deleted at its end, "killed" when the process was terminated while its threads
\* ran, "other" else; in a run with --restore, "restore_first" when the run before
\* was the first run of the input, with the backup, and moved every task to done,
\* "restore" else
\* listed holds the records --list-failed printed, by task
NoRun == [phase |-> "idle", cfg |-> NoCfg, snapshot |-> {}, queue |-> {},
          proc |-> NoFiles, calls |-> NoFiles, totals |-> NoTotals, prev |-> "other",
          listed |-> NoFiles]

\* generate_hash taking the md5 of the path instead of the content
generate_hash_of_path(input_file_path) == md5(input_file_path)

\* generate_hash(input_file_path): the md5 of what the file holds
generate_hash(input_file_path) == md5(files[input_file_path])

\* setup_workspace: mkdir of the workspace directory and, only when that did not
\* raise FileExistsError, of todo, error and done
setup_workspace(tr, h) == IF h \in DOMAIN tr THEN tr ELSE (h :> NewWorkspace) @@ tr

\* delete_workspace without the test of force and of the clean workspace
delete_workspace_unguarded(tr, h, force) == [k \in (DOMAIN tr) \ {h} |-> tr[k]]

\* delete_workspace(force): shutil.rmtree of the workspace directory
delete_workspace(tr, h, force) ==
    IF ~force /\ ~is_workspace_clean(tr[h]) THEN tr
    ELSE [k \in (DOMAIN tr) \ {h} |-> tr[k]]

\* the file names the rows of an input give
TaskNames(rows) == {FILE_NAME_PATTERN(rows[i]) : i \in 1..Len(rows)}

\* a call of one of the three transition callbacks, by name
Transition(op, w, filename) ==
    CASE op = "move_to_done" -> move_to_done(w, filename)
      [] op = "move_to_error" -> move_to_error(w, filename)
      [] op = "move_to_retry" -> move_to_retry(w, filename)

TransitionOps == {"move_to_done", "move_to_error", "move_to_retry"}

Effect(r, w) == IF r.raised THEN "raised" ELSE IF r.w = w THEN "noop" ELSE "moved"

\* ------------------------------------------------------------------ actions
\* what WorkspaceManager(input_file_path) leaves: [raised, tree, mgr, last]
constructed(p) ==
    LET h == generate_hash(p)
        t1 == setup_workspace(tree, h)
        w == t1[h]
        same == /\ last.op = "init" /\ last.effect # "raised"
                /\ last.id \in DOMAIN files /\ files[last.id] = files[p]
    IN IF listing_raises(w)
       THEN [raised |-> TRUE, tree |-> t1, mgr |-> NoMgr,
             last |-> [op |-> "init", id |-> p, effect |-> "raised", again |-> same]]
       ELSE [raised |-> FALSE,
             tree |-> [t1 EXCEPT ![h] = create_input_files(w, files[p])],
             mgr |-> [input_file_path |-> p, content_hash |-> h],
             last |-> [op |-> "init", id |-> p, again |-> same,
                       effect |-> IF should_recreate_files(w) THEN "populated"
                                  ELSE "resumed"]]

\* WorkspaceManager(input_file_path): __init__, a process starting on an input
WorkspaceManagerInit(p) ==
    /\ AllIdle
    /\ run.phase # "running"
    /\ home' = TRUE
    /\ tree' = constructed(p).tree
    /\ mgr' = constructed(p).mgr
    /\ last' = constructed(p).last
    /\ UNCHANGED <<files, wk, rt, run, remote, bk, backups>>

\* one of move_to_done, move_to_error, move_to_retry, called by a single thread
MarkCall(op, filename) ==
    /\ HasMgr
    /\ LET h == mgr.content_hash IN
       IF h \notin DOMAIN tree
       THEN /\ last' = [op |-> op, id |-> filename, effect |-> "raised", again |-> FALSE]
            /\ UNCHANGED tree
       ELSE LET r == Transition(op, tree[h], filename) IN
            /\ tree' = [tree EXCEPT ![h] = r.w]
            /\ last' = [op |-> op, id |-> filename, effect |-> Effect(r, tree[h]),
                        again |-> FALSE]
    /\ UNCHANGED <<files, home, mgr, wk, rt, run, remote, bk, backups>>

\* workspace.delete_workspace(force), by the main thread
Deletion(force) ==
    /\ HasMgr
    /\ AllIdle
    /\ LET h == mgr.content_hash IN
       IF h \notin DOMAIN tree
       THEN /\ last' = [op |-> "delete_workspace", id |-> force, effect |-> "raised",
                        again |-> FALSE]
            /\ UNCHANGED tree
       ELSE /\ tree' = delete_workspace(tree, h, force)
            /\ last' = [op |-> "delete_workspace", id |-> force, again |-> FALSE,
                        effect |-> IF h \in DOMAIN delete_workspace(tree, h, force)
                                   THEN "kept" ELSE "deleted"]
    /\ rt' = IF mgr.content_hash \in DOMAIN tree' THEN rt ELSE NoFiles
    /\ UNCHANGED <<files, home, mgr, wk, remote>>

\* a call of delete_workspace outside a run
DeleteWorkspace(force) == Deletion(force) /\ UNCHANGED <<run, bk, backups>>

\* the folder of the workspace that holds the file, "none" when none does
Where(w, filename) ==
    IF exists(w, "todo", filename) THEN "todo"
    ELSE IF exists(w, "error", filename) THEN "error"
    ELSE IF exists(w, "done", filename) THEN "done"
    ELSE "none"

\* rt after one more call completed on the file: [op, from] is the call and the
\* folder that held the file when it began.  1: move_to_error on a file of todo;
\* 2: move_to_retry next; 3: move_to_done next; 4: any other move_to_retry on a file
\* of error; 0: anything else
Remember(filename, call) ==
    LET m == IF filename \in DOMAIN rt THEN rt[filename] ELSE 0
    IN Put(rt, filename,
           IF call.op = "move_to_error" /\ call.from = "todo" THEN 1
           ELSE IF call.op = "move_to_retry" /\ m = 1 THEN 2
           ELSE IF call.op = "move_to_retry" /\ call.from = "error" THEN 4
           ELSE IF call.op = "move_to_done" /\ m = 2 THEN 3
           ELSE 0)

\* run_individual_task and dispatch_task return when the callback does: the outcome is
\* True after done_callback, False after error_callback, and the exception when the
\* callback raised (nothing catches it); run as it is then
Returned(t, raised) ==
    IF ~wk[t].task THEN run
    ELSE [run EXCEPT !.proc = Put(@, wk[t].id,
                                  IF raised THEN "exception"
                                  ELSE IF wk[t].op = "move_to_done" THEN "True"
                                  ELSE "False")]

\* a worker thread enters move_to_done, move_to_error or move_to_retry on a file no
\* other thread is working on; the threads are alike, so the first idle one takes it
Begin(t, op, filename) ==
    /\ HasMgr
    /\ mgr.content_hash \in DOMAIN tree
    /\ wk[t].pc = "idle"
    /\ \A u \in Threads : u < t => wk[u].pc # "idle"
    /\ \A u \in Threads \ {t} : wk[u].pc # "idle" => wk[u].id # filename
    /\ wk' = [wk EXCEPT ![t] =
                 [pc |-> IF op = "move_to_retry" THEN "move" ELSE "check",
                  op |-> op, id |-> filename,
                  source |-> IF op = "move_to_retry" THEN "error" ELSE "",
                  from |-> Where(tree[mgr.content_hash], filename), task |-> FALSE]]
    /\ UNCHANGED <<files, home, tree, mgr, last, rt, run, remote, bk, backups>>

\* the os.path.exists test of move_to_done (line 100) and move_to_error (line 111)
Check(t) ==
    /\ wk[t].pc = "check"
    /\ LET w == tree[mgr.content_hash]
           filename == wk[t].id
       IN IF wk[t].op = "move_to_done"
          THEN /\ wk' = [wk EXCEPT ![t].pc = "move", ![t].source = pick_source(w, filename)]
               /\ UNCHANGED <<rt, run>>
          ELSE IF error_guard(w, filename)
          THEN /\ wk' = [wk EXCEPT ![t].pc = "move", ![t].source = "todo"]
               /\ UNCHANGED rt
               /\ UNCHANGED run
          ELSE /\ wk' = [wk EXCEPT ![t] = Idle]
               /\ rt' = Remember(filename, [op |-> wk[t].op, from |-> wk[t].from])
               /\ run' = Returned(t, FALSE)
    /\ UNCHANGED <<files, home, tree, mgr, last, remote, bk, backups>>

\* the folder a transition moves the file to
Destination(op) ==
    CASE op = "move_to_done" -> "done"
      [] op = "move_to_error" -> "error"
      [] op = "move_to_retry" -> "todo"

\* the shutil.move of the transition, and its return
Move(t) ==
    /\ wk[t].pc = "move"
    /\ LET h == mgr.content_hash
           filename == wk[t].id
           r == IF wk[t].op = "move_to_retry" THEN move_to_retry(tree[h], filename)
                ELSE shutil_move(tree[h], wk[t].source, filename, Destination(wk[t].op))
       IN /\ tree' = [tree EXCEPT ![h] = r.w]
          /\ rt' = Remember(filename, [op |-> wk[t].op, from |-> wk[t].from])
          /\ run' = Returned(t, r.raised)
    /\ wk' = [wk EXCEPT ![t] = Idle]
    /\ UNCHANGED <<files, home, mgr, last, remote, bk, backups>>

\* ------------------------------------------------------------ the dispatcher
\* the counters of calls per task saturate here
CountCap == 2

Count(n) == IF n < CountCap THEN n + 1 ELSE n

\* --domain
ArgsDomain == <<"dom">>

\* the command lines of a run: the flags dispatch_work and run_individual_task read
Cfgs == [retry_failed : BOOLEAN, dry_run : BOOLEAN, no_backup : BOOLEAN,
         ask_confirmation : BOOLEAN, conserve_workspace : BOOLEAN,
         delete_workspace : BOOLEAN]

\* what a thread did for a task: the times it was taken from the executor's queue,
\* done_callback and error_callback were called, get_restrictions, do_backup and
\* apply_restrictions were called, the negative answer the user gave, and how the try
\* block ended
ZeroCalls == [taken |-> 0, done |-> 0, error |-> 0, fetch |-> 0, backup |-> 0,
              apply |-> 0, answer |-> "", fate |-> "none"]

\* get_user_confirmation taking every valid answer for a yes
get_user_confirmation_all_yes(user_choice) ==
    [raised |-> user_choice \notin {"Y", "y", "N", "n"}, value |-> TRUE]

\* input(): Y or y is True, N or n is False, anything else raises
get_user_confirmation(user_choice) ==
    IF user_choice \notin {"Y", "y", "N", "n"} THEN [raised |-> TRUE, value |-> FALSE]
    ELSE [raised |-> FALSE, value |-> user_choice \in {"Y", "y"}]

\* describe_package(...)['originConfiguration']['restrictions']
get_restrictions(rem, line) ==
    IF line.domain # ArgsDomain \/ CompositeKey(line) \notin DOMAIN rem
    THEN [raised |-> TRUE, res |-> <<>>]
    ELSE [raised |-> FALSE, res |-> rem[CompositeKey(line)]]

\* put_package_origin_configuration(...)
apply_restrictions(rem, line) ==
    IF line.domain # ArgsDomain THEN [raised |-> TRUE, remote |-> rem]
    ELSE [raised |-> FALSE,
          remote |-> Put(rem, CompositeKey(line),
                         [upstream |-> line.upstream, publish |-> line.publish])]

\* the statement of run_individual_task that follows line 29, and line 26
\* line 30 without the test of --dry-run
AfterBackup_always_apply(cfg) == "apply"

AfterBackup(cfg) == IF ~cfg.dry_run THEN "apply" ELSE "callback"

\* line 28 taking the backup manager for absent
AfterConfirm_without_backup(cfg) == AfterBackup(cfg)

AfterConfirm(cfg) == IF ~cfg.no_backup THEN "backup" ELSE AfterBackup(cfg)

\* line 26 asking whatever --ask-confirmation says
FirstStatement_always_confirm(cfg) == "confirm"

FirstStatement(cfg) == IF cfg.ask_confirmation THEN "confirm" ELSE AfterConfirm(cfg)

\* a queue the task stays in after a thread took it
Dequeue_rescan(queue, id) == queue

\* the executor's queue once a thread took the task: every task was submitted once
Dequeue(queue, id) == queue \ {id}

\* an except clause that goes on to done_callback
Raised_into_done(th, w) ==
    [th EXCEPT !.pc = "check", !.op = "move_to_done", !.from = Where(w, th.id)]

\* the except clause: error_callback(task_id) is entered
Raised(th, w) ==
    [th EXCEPT !.pc = "check", !.op = "move_to_error", !.from = Where(w, th.id)]

\* the thread goes on to the statement, done_callback(task_id) after the try block
Goto(th, statement, w) ==
    IF statement = "callback"
    THEN [th EXCEPT !.pc = "check", !.op = "move_to_done", !.from = Where(w, th.id)]
    ELSE [th EXCEPT !.pc = statement]

\* run after the thread record th was reached from the try block of task id
Called(r, th, id) ==
    IF th.op = "move_to_error"
    THEN [r EXCEPT !.calls[id].error = Count(@)]
    ELSE IF th.op = "move_to_done"
    THEN [r EXCEPT !.calls[id].done = Count(@)]
    ELSE r

Fate(r, id, fate) == [r EXCEPT !.calls[id].fate = fate]

\* ------------------------------------------------------- the backup manager
\* what a user may type at a prompt
Answers == {"Y", "y", "N", "n", "q"}

\* no BackupManager in the process
NoBk == [alive |-> FALSE, target |-> md5(<<>>), pc |-> "none", queue |-> <<>>,
         handed |-> <<>>, item |-> <<>>, buffer |-> <<>>, wrote |-> {}]

\* the backup file of an input is named by the hash of its content
get_backup_file(input_file_path) == generate_hash(input_file_path)

\* the overwrite prompt: an invalid answer raises out of __init__ as the raise of
\* line 35 does
ask_user_whether_to_overwrite_backup(user_choice) ==
    /\ ~get_user_confirmation(user_choice).raised
    /\ get_user_confirmation(user_choice).value

\* line 33: the BackupManager is made, the backup file exists and --ask-confirmation
OverwritePrompt(cfg) ==
    /\ ~cfg.no_backup
    /\ cfg.ask_confirmation
    /\ get_backup_file("in1") \in DOMAIN backups

\* open(target_filename, 'w+'): the file is created, or truncated
init_as_write(bks, target) == (target :> <<>>) @@ bks

\* the manager once __init__ returned: the queue is empty and the writer thread is
\* started; handed lists the tasks do_backup was given, wrote the threads that wrote
\* to the file
BackupManagerInit(target) ==
    [alive |-> TRUE, target |-> target, pc |-> "header", queue |-> <<>>,
     handed |-> <<>>, item |-> <<>>, buffer |-> <<>>, wrote |-> {}]

\* do_backup writing the row itself, from the calling thread
do_backup_writing(b, t, package, origin_configuration) ==
    [b EXCEPT !.handed = Append(@, [package |-> package,
                                    origin_configuration |-> origin_configuration]),
              !.buffer = Append(@, <<package.domain, package.repository, package.format,
                                     package.namespace, package.package,
                                     origin_configuration.upstream,
                                     origin_configuration.publish>>),
              !.wrote = @ \cup {"worker"}]

\* do_backup putting the task at the front of the queue
do_backup_at_front(b, t, package, origin_configuration) ==
    [b EXCEPT !.queue = <<[package |-> package,
                           origin_configuration |-> origin_configuration]>> \o @,
              !.handed = Append(@, [package |-> package,
                                    origin_configuration |-> origin_configuration])]

\* do_backup(package, origin_configuration) called by thread t: task_queue.put(task)
do_backup(b, t, package, origin_configuration) ==
    [b EXCEPT !.queue = Append(@, [package |-> package,
                                   origin_configuration |-> origin_configuration]),
              !.handed = Append(@, [package |-> package,
                                    origin_configuration |-> origin_configuration])]

\* lines 70-78: the line the writer thread makes of a task
backup_line(task) ==
    [domain |-> task.package.domain, repository |-> task.package.repository,
     namespace |-> task.package.namespace, format |-> task.package.format,
     package |-> task.package.package,
     upstream |-> task.origin_configuration.upstream,
     publish |-> task.origin_configuration.publish]

\* the process ends: the daemon writer thread ends with it and the queue is gone;
\* what the file object still buffers reaches the file if the interpreter gets to
\* close the file, else it is lost
ProcessEnd ==
    /\ bk' = NoBk
    /\ \E closed \in BOOLEAN :
          backups' = IF closed /\ bk.alive
                     THEN [backups EXCEPT ![bk.target] = @ \o bk.buffer]
                     ELSE backups

\* _writer_thread, line 67: csv_writer.writeheader()
WriteHeader ==
    /\ bk.alive /\ bk.pc = "header"
    /\ bk' = [bk EXCEPT !.pc = "get", !.buffer = Append(@, CSV_HEADER),
                        !.wrote = @ \cup {"writer"}]
    /\ UNCHANGED <<files, home, tree, mgr, last, wk, rt, run, remote, backups>>

\* line 69: task_queue.get() returns the oldest task once there is one
Get ==
    /\ bk.alive /\ bk.pc = "get"
    /\ bk.queue # <<>>
    /\ bk' = [bk EXCEPT !.pc = "row", !.item = Head(bk.queue), !.queue = Tail(@)]
    /\ UNCHANGED <<files, home, tree, mgr, last, wk, rt, run, remote, backups>>

\* lines 70-79: csv_writer.writerow(line)
WriteRow ==
    /\ bk.alive /\ bk.pc = "row"
    /\ bk' = [bk EXCEPT !.pc = "flush", !.item = <<>>,
                        !.buffer = Append(@, writerow(backup_line(bk.item))),
                        !.wrote = @ \cup {"writer"}]
    /\ UNCHANGED <<files, home, tree, mgr, last, wk, rt, run, remote, backups>>

\* line 80: target_file.flush()
Flush ==
    /\ bk.alive /\ bk.pc = "flush"
    /\ bk' = [bk EXCEPT !.pc = "get", !.buffer = <<>>]
    /\ backups' = [backups EXCEPT ![bk.target] = @ \o bk.buffer]
    /\ UNCHANGED <<files, home, tree, mgr, last, wk, rt, run, remote>>

\* the thread enters the except clause of the task it runs
Raise(t) ==
    LET th == Raised(wk[t], tree[mgr.content_hash])
    IN /\ wk' = [wk EXCEPT ![t] = th]
       /\ run' = Called(Fate(run, wk[t].id, "raised"), th, wk[t].id)

\* the thread goes on to the statement; r is run with the call just made counted
Proceed(t, statement, r) ==
    LET th == Goto(wk[t], statement, tree[mgr.content_hash])
    IN /\ wk' = [wk EXCEPT ![t] = th]
       /\ run' = Called(IF statement = "callback" THEN Fate(r, wk[t].id, "completed")
                        ELSE r, th, wk[t].id)

\* line 60 listing todo whatever --retry-failed says
task_generator_todo(cfg) == "todo"

\* line 60: the folder get_failed_tasks or get_tasks lists
task_generator(cfg) == IF cfg.retry_failed THEN "error" ELSE "todo"

\* dispatch_work, lines 42-63: the WorkspaceManager is constructed, then, unless
\* --no-backup, the BackupManager, which asks before it overwrites a backup when
\* --ask-confirmation is given.  With --delete-workspace the forced delete is next,
\* else thread_map submits one task per file of one listing.  No thread of this
\* process has completed a call yet.
Dispatch(cfg) ==
    /\ run.phase \in {"idle", "exited", "aborted", "refused", "killed"}
    /\ AllIdle
    /\ home' = TRUE
    /\ tree' = constructed("in1").tree
    /\ mgr' = constructed("in1").mgr
    /\ last' = constructed("in1").last
    /\ \E user_choice \in IF OverwritePrompt(cfg) THEN Answers ELSE {""} :
          LET c == constructed("in1")
              target == get_backup_file("in1")
              refused == /\ ~c.raised /\ OverwritePrompt(cfg)
                         /\ ~ask_user_whether_to_overwrite_backup(user_choice)
              started == ~c.raised /\ ~cfg.no_backup /\ ~refused
              listed == ~c.raised /\ ~refused /\ ~cfg.delete_workspace
              snapshot == IF listed
                          THEN listdir(c.tree[c.mgr.content_hash], task_generator(cfg))
                          ELSE {}
          IN /\ run' = [phase |-> IF c.raised THEN "aborted"
                                  ELSE IF refused THEN "refused"
                                  ELSE IF cfg.delete_workspace THEN "deleting"
                                  ELSE "running",
                        cfg |-> cfg, snapshot |-> snapshot, queue |-> snapshot,
                        proc |-> NoFiles, calls |-> [id \in snapshot |-> ZeroCalls],
                        totals |-> NoTotals, prev |-> run.prev, listed |-> NoFiles]
             /\ bk' = IF started THEN BackupManagerInit(target) ELSE NoBk
             /\ backups' = IF started THEN init_as_write(backups, target) ELSE backups
    /\ rt' = NoFiles
    /\ UNCHANGED <<files, wk, remote>>

\* a worker thread of the pool takes a task from the queue and enters
\* run_individual_task; the threads are alike, so the first idle one takes it
Take(t) ==
    /\ run.phase = "running"
    /\ wk[t].pc = "idle"
    /\ \A u \in Threads : u < t => wk[u].pc # "idle"
    /\ \E id \in run.queue :
          LET th == Goto([Idle EXCEPT !.id = id, !.task = TRUE],
                         FirstStatement(run.cfg), tree[mgr.content_hash])
              r == [run EXCEPT !.queue = Dequeue(@, id), !.calls[id].taken = Count(@)]
          IN /\ wk' = [wk EXCEPT ![t] = th]
             /\ run' = Called(IF FirstStatement(run.cfg) = "callback"
                              THEN Fate(r, id, "completed") ELSE r, th, id)
    /\ UNCHANGED <<files, home, tree, mgr, last, rt, remote, bk, backups>>

\* line 26: get_user_confirmation(); a negative answer returns (task_id, None, False)
Confirm(t) ==
    /\ wk[t].pc = "confirm"
    /\ \E user_choice \in Answers :
          LET c == get_user_confirmation(user_choice)
              asked == IF user_choice \in {"N", "n"}
                       THEN [run EXCEPT !.calls[wk[t].id].answer = user_choice]
                       ELSE run
          IN IF c.raised
             THEN /\ wk' = [wk EXCEPT ![t] = Raised(wk[t], tree[mgr.content_hash])]
                  /\ run' = Called(Fate(asked, wk[t].id, "raised"),
                                   Raised(wk[t], tree[mgr.content_hash]), wk[t].id)
             ELSE IF c.value THEN Proceed(t, AfterConfirm(run.cfg), asked)
             ELSE /\ wk' = [wk EXCEPT ![t] = Idle]
                  /\ run' = [Fate(asked, wk[t].id, "declined") EXCEPT
                                !.proc = Put(@, wk[t].id, "False")]
    /\ UNCHANGED <<files, home, tree, mgr, last, rt, remote, bk, backups>>

\* line 29: reader, get_restrictions, do_backup; the client may fail
Backup(t) ==
    /\ wk[t].pc = "backup"
    /\ \E fails \in BOOLEAN :
          LET rd == reader(tree[mgr.content_hash], wk[t].id)
              fetched == [run EXCEPT !.calls[wk[t].id].fetch = Count(@)]
          IN IF rd.raised THEN Raise(t) /\ UNCHANGED bk
             ELSE IF fails \/ get_restrictions(remote, rd.line).raised
             THEN /\ wk' = [wk EXCEPT ![t] = Raised(wk[t], tree[mgr.content_hash])]
                  /\ run' = Called(Fate(fetched, wk[t].id, "raised"),
                                   Raised(wk[t], tree[mgr.content_hash]), wk[t].id)
                  /\ UNCHANGED bk
             ELSE /\ Proceed(t, AfterBackup(run.cfg),
                             [fetched EXCEPT !.calls[wk[t].id].backup = Count(@)])
                  /\ bk' = do_backup(bk, t, rd.line, get_restrictions(remote, rd.line).res)
    /\ UNCHANGED <<files, home, tree, mgr, last, rt, remote, backups>>

\* line 31: reader, apply_restrictions; the client may fail
Apply(t) ==
    /\ wk[t].pc = "apply"
    /\ \E fails \in BOOLEAN :
          LET rd == reader(tree[mgr.content_hash], wk[t].id)
              called == [run EXCEPT !.calls[wk[t].id].apply = Count(@)]
          IN IF rd.raised THEN Raise(t) /\ UNCHANGED remote
             ELSE IF fails \/ apply_restrictions(remote, rd.line).raised
             THEN /\ wk' = [wk EXCEPT ![t] = Raised(wk[t], tree[mgr.content_hash])]
                  /\ run' = Called(Fate(called, wk[t].id, "raised"),
                                   Raised(wk[t], tree[mgr.content_hash]), wk[t].id)
                  /\ UNCHANGED remote
             ELSE /\ Proceed(t, "callback", called)
                  /\ remote' = apply_restrictions(remote, rd.line).remote
    /\ UNCHANGED <<files, home, tree, mgr, last, rt, bk, backups>>

\* an exception left a task: the map re-raises it when it collects that result
Escaped == \E id \in DOMAIN run.proc : run.proc[id] = "exception"

\* lines 66-68 with successes counted as len(proc)
Totals_successes_all(proc) ==
    [printed |-> TRUE, processed |-> Cardinality(DOMAIN proc),
     successes |-> Cardinality(DOMAIN proc),
     failures |-> Cardinality({id \in DOMAIN proc : proc[id] # "True"})]

\* lines 66-68: len(proc), the outcomes that are true, the outcomes that are not
Totals(proc) ==
    [printed |-> TRUE, processed |-> Cardinality(DOMAIN proc),
     successes |-> Cardinality({id \in DOMAIN proc : proc[id] = "True"}),
     failures |-> Cardinality({id \in DOMAIN proc : proc[id] # "True"})]

\* lines 63-68: thread_map returns once every task returned and the totals are
\* printed; an exception that left a task ends dispatch_work instead
Report ==
    /\ run.phase = "running"
    /\ AllIdle
    /\ run.queue = {} \/ Escaped
    /\ run' = IF Escaped THEN [NoRun EXCEPT !.phase = "aborted"]
              ELSE [run EXCEPT !.phase = "reported", !.totals = Totals(run.proc)]
    /\ IF Escaped THEN ProcessEnd ELSE UNCHANGED <<bk, backups>>
    /\ UNCHANGED <<files, home, tree, mgr, last, wk, rt, remote>>

\* the run is one without --retry-failed and prompts over a workspace it populated
FreshRun ==
    /\ run.prev \notin {"restore_first", "restore"}
    /\ ~run.cfg.retry_failed /\ ~run.cfg.ask_confirmation
    /\ last.op = "init" /\ last.effect = "populated"

\* lines 70-71: delete_workspace() unless --conserve-workspace, and the process ends
Cleanup ==
    /\ run.phase = "reported"
    /\ run' = [NoRun EXCEPT !.phase = "exited",
                            !.prev = IF ~FreshRun THEN "other"
                                     ELSE IF \/ run.cfg.conserve_workspace
                                             \/ ~is_workspace_clean(tree[mgr.content_hash])
                                     THEN "fresh_kept" ELSE "fresh_deleted"]
    /\ ProcessEnd
    /\ IF run.cfg.conserve_workspace
       THEN UNCHANGED <<files, home, tree, mgr, last, wk, rt, remote>>
       ELSE Deletion(FALSE)

\* line 48: delete_workspace(force=True), and the process ends
ForcedDelete ==
    /\ run.phase = "deleting"
    /\ run' = [NoRun EXCEPT !.phase = "exited"]
    /\ ProcessEnd
    /\ Deletion(TRUE)

\* the rows csv.DictReader gives for a backup file: its first line is the header
\* writeheader wrote, the fields of CSV_HEADER in that order
backup_rows(lines) == [i \in 1..(Len(lines) - 1) |-> DictRead(lines[i + 1])]

\* what WorkspaceManager(get_backup_file(args.input)) leaves, for the rows of the
\* backup file: [raised, tree, mgr, last]
restored(rows) ==
    LET h == md5(rows)
        t1 == setup_workspace(tree, h)
        w == t1[h]
    IN IF listing_raises(w)
       THEN [raised |-> TRUE, tree |-> t1, mgr |-> NoMgr,
             last |-> [op |-> "init", id |-> "backup", effect |-> "raised", again |-> FALSE]]
       ELSE [raised |-> FALSE,
             tree |-> [t1 EXCEPT ![h] = create_input_files(w, rows)],
             mgr |-> [input_file_path |-> "backup", content_hash |-> h],
             last |-> [op |-> "init", id |-> "backup", again |-> FALSE,
                       effect |-> IF should_recreate_files(w) THEN "populated"
                                  ELSE "resumed"]]

\* dispatch_work with --restore, lines 42-63: the workspace is made of the backup
\* file of the input, which has to exist, no BackupManager is made, and thread_map
\* submits one task per file of one listing.  (With --delete-workspace or
\* --list-failed too, lines 46-54 follow the construction.)
DispatchRestore(cfg) ==
    /\ run.phase \in {"idle", "exited", "aborted", "refused", "killed"}
    /\ AllIdle
    /\ ~cfg.delete_workspace
    /\ LET target == get_backup_file("in1")
       IN IF target \notin DOMAIN backups
          THEN /\ run' = [NoRun EXCEPT !.phase = "aborted"]
               /\ UNCHANGED <<home, tree, mgr, last>>
          ELSE LET c == restored(backup_rows(backups[target]))
                   snapshot == IF c.raised THEN {}
                               ELSE listdir(c.tree[c.mgr.content_hash], task_generator(cfg))
               IN /\ home' = TRUE
                  /\ tree' = c.tree
                  /\ mgr' = c.mgr
                  /\ last' = c.last
                  /\ run' = [phase |-> IF c.raised THEN "aborted" ELSE "running",
                             cfg |-> [cfg EXCEPT !.no_backup = TRUE],
                             snapshot |-> snapshot, queue |-> snapshot,
                             proc |-> NoFiles, calls |-> [id \in snapshot |-> ZeroCalls],
                             totals |-> NoTotals,
                             prev |-> IF run.prev = "fresh_deleted" THEN "restore_first"
                                      ELSE "restore",
                             listed |-> NoFiles]
    /\ bk' = NoBk
    /\ rt' = NoFiles
    /\ UNCHANGED <<files, wk, remote, backups>>

\* get_failed_tasks listing todo
get_failed_tasks_todo(w) == listdir(w, "todo")

\* get_failed_tasks: the tasks of one listing of error
get_failed_tasks(w) == listdir(w, "error")

\* dispatch_work with --list-failed, lines 42-54: the WorkspaceManager is constructed,
\* then, unless --no-backup, the BackupManager, whose file is opened for writing;
\* the record of every task of get_failed_tasks is printed and the process ends,
\* with the header of the backup written by then or not.  (With --delete-workspace
\* too, line 46 comes first: see Dispatch.)
ListFailed(cfg) ==
    /\ run.phase \in {"idle", "exited", "aborted", "refused", "killed"}
    /\ AllIdle
    /\ ~cfg.delete_workspace
    /\ home' = TRUE
    /\ tree' = constructed("in1").tree
    /\ mgr' = constructed("in1").mgr
    /\ last' = constructed("in1").last
    /\ \E user_choice \in IF OverwritePrompt(cfg) THEN Answers ELSE {""} :
          LET c == constructed("in1")
              target == get_backup_file("in1")
              refused == /\ ~c.raised /\ OverwritePrompt(cfg)
                         /\ ~ask_user_whether_to_overwrite_backup(user_choice)
              started == ~c.raised /\ ~cfg.no_backup /\ ~refused
              w == c.tree[c.mgr.content_hash]
          IN /\ run' = [NoRun EXCEPT
                           !.phase = IF c.raised THEN "aborted"
                                     ELSE IF refused THEN "refused" ELSE "exited",
                           !.listed = IF c.raised \/ refused THEN NoFiles
                                      ELSE [id \in get_failed_tasks(w) |-> reader(w, id).line]]
             /\ \E header \in {<<>>, <<CSV_HEADER>>} :
                   backups' = IF started
                              THEN [init_as_write(backups, target) EXCEPT ![target] = header]
                              ELSE backups
    /\ bk' = NoBk
    /\ rt' = NoFiles
    /\ UNCHANGED <<files, wk, remote>>

\* the process is terminated from outside while thread_map runs: its threads end
\* where they are, and what they moved stays moved
Kill ==
    /\ run.phase = "running"
    /\ run' = [NoRun EXCEPT !.phase = "killed", !.prev = "killed"]
    /\ wk' = [t \in Threads |-> Idle]
    /\ ProcessEnd
    /\ UNCHANGED <<files, home, tree, mgr, last, rt, remote>>

\* ----------------------------------------------- workspace creation: SpecInit
InitRecords == Records(Namespaces, Packages, {"ALLOW"}, {"ALLOW"})

\* in1 is any input; in2 is a byte-identical copy of it, or an empty file
InitCreate ==
    /\ files \in {f \in [Paths -> SeqUpTo(InitRecords, MaxRecords)] :
                     f["in2"] \in {f["in1"], <<>>}}
    /\ home = FALSE
    /\ tree = [h \in {} |-> NewWorkspace]
    /\ mgr = NoMgr
    /\ last = NoCall
    /\ wk = [t \in Threads |-> Idle]
    /\ rt = NoFiles
    /\ run = NoRun
    /\ remote = NoFiles
    /\ bk = NoBk
    /\ backups = NoFiles

NextCreate ==
    \/ \E p \in Paths : WorkspaceManagerInit(p)
    \/ /\ HasMgr
       /\ \E op \in TransitionOps :
             \E filename \in TaskNames(files[mgr.input_file_path]) : MarkCall(op, filename)
    \/ \E force \in BOOLEAN : DeleteWorkspace(force)

SpecInit == InitCreate /\ [][NextCreate]_vars

\* ------------------------------------------- repeated keys: SpecDup
\* rows that repeat a composite key with another upstream flag, and rows of
\* different keys that give one file name
DupRecords == Records({<<"a">>, <<"a", "-", "b">>}, Packages, {"ALLOW", "BLOCK"}, {"ALLOW"})

\* room for a key given twice and another key
MaxDupRecords == MaxRecords + 1

InitDup ==
    /\ files \in {f \in [Paths -> SeqUpTo(DupRecords, MaxDupRecords)] : f["in2"] = <<>>}
    /\ home = FALSE
    /\ tree = [h \in {} |-> NewWorkspace]
    /\ mgr = NoMgr
    /\ last = NoCall
    /\ wk = [t \in Threads |-> Idle]
    /\ rt = NoFiles
    /\ run = NoRun
    /\ remote = NoFiles
    /\ bk = NoBk
    /\ backups = NoFiles

SpecDup == InitDup /\ [][NextCreate]_vars

\* ------------------------------------ interrupted construction: SpecCrash
\* the os.mkdir calls of setup_workspace, in the order of lines 38-45
MkdirOrder == <<"workspaces_home", "workspace_dir", "todo", "error", "done">>

\* the workspaces after the first k os.mkdir calls of setup_workspace returned or
\* raised FileExistsError: a workspace directory that exists makes line 42 raise,
\* and lines 43-45 are skipped
setup_workspace_upto(tr, h, k) ==
    IF h \in DOMAIN tr \/ k < 2 THEN tr
    ELSE (h :> [NewWorkspace EXCEPT !.dirs = {MkdirOrder[i] : i \in 3..k}]) @@ tr

\* the process is terminated inside setup_workspace, after some of its os.mkdir calls
InterruptedSetup(p) ==
    /\ AllIdle
    /\ run.phase # "running"
    /\ \E k \in 1..(Len(MkdirOrder) - 1) :
          tree' = setup_workspace_upto(tree, generate_hash(p), k)
    /\ home' = TRUE
    /\ mgr' = NoMgr
    /\ last' = [op |-> "init", id |-> p, effect |-> "interrupted", again |-> FALSE]
    /\ UNCHANGED <<files, wk, rt, run, remote, bk, backups>>

\* the process is terminated inside the loop of create_input_files, after the task
\* files of the first k rows were written and before the last was
InterruptedPopulate(p) ==
    /\ AllIdle
    /\ run.phase # "running"
    /\ LET h == generate_hash(p)
           t1 == setup_workspace(tree, h)
       IN /\ ~listing_raises(t1[h])
          /\ should_recreate_files(t1[h])
          /\ \E k \in 1..(Len(files[p]) - 1) :
                tree' = [t1 EXCEPT ![h].todo = write_rows(@, SubSeq(files[p], 1, k))]
    /\ home' = TRUE
    /\ mgr' = NoMgr
    /\ last' = [op |-> "init", id |-> p, effect |-> "crashed", again |-> FALSE]
    /\ UNCHANGED <<files, wk, rt, run, remote, bk, backups>>

\* constructions of the workspace, any of which may be terminated
NextCrash ==
    \/ \E p \in Paths : WorkspaceManagerInit(p)
    \/ \E p \in Paths : InterruptedSetup(p)
    \/ \E p \in Paths : InterruptedPopulate(p)
    \/ /\ HasMgr
       /\ \E op \in TransitionOps :
             \E filename \in TaskNames(files[mgr.input_file_path]) : MarkCall(op, filename)
    \/ \E force \in BOOLEAN : DeleteWorkspace(force)

SpecCrash == InitCreate /\ [][NextCrash]_vars

\* ------------------------------------------------------ claims on creation
\* the workspace of the running process
Ws == tree[mgr.content_hash]

AllEmpty(w) == \A folder \in Folders : listdir(w, folder) = {}

DistinctKeys(rows) ==
    \A i, j \in 1..Len(rows) : i # j => CompositeKey(rows[i]) # CompositeKey(rows[j])

\* C2: an input of N rows with pairwise distinct composite keys, initialized on an
\* empty workspace directory, leaves exactly N task files in todo, one per key, named
\* by the five key fields joined by '-', and leaves error and done empty.
C2_OneTaskFilePerKey ==
    (last.op = "init" /\ last.effect = "populated" /\ DistinctKeys(files[last.id]))
        => /\ Cardinality(listdir(Ws, "todo")) = Len(files[last.id])
           /\ listdir(Ws, "todo") = TaskNames(files[last.id])
           /\ listdir(Ws, "error") = {}
           /\ listdir(Ws, "done") = {}

\* C3: initialization populates todo from the input if and only if todo, error and
\* done are all empty at that moment; otherwise it creates, removes and rewrites no
\* task file of the three collections.
C3_PopulateIffAllEmpty ==
    [][\A p \in Paths :
          (WorkspaceManagerInit(p) /\ last'.effect # "raised") =>
              LET h == generate_hash(p)
                  pre == IF h \in DOMAIN tree THEN tree[h] ELSE NewWorkspace
                  post == tree'[h]
              IN /\ (last'.effect = "populated") <=> AllEmpty(pre)
                 /\ AllEmpty(pre) =>
                       /\ listdir(post, "todo") = TaskNames(files[p])
                       /\ listdir(post, "error") = {}
                       /\ listdir(post, "done") = {}
                 /\ ~AllEmpty(pre) => post = pre]_vars

\* an initialization that found done non-empty, todo and error empty, and resumed
C3_Witness ==
    /\ last.op = "init" /\ last.effect = "resumed"
    /\ listdir(Ws, "done") # {} /\ listdir(Ws, "todo") = {} /\ listdir(Ws, "error") = {}

\* C4: constructing the workspace twice from byte-identical input, with no task
\* processing in between, gives the same workspace directory both times, and the
\* second construction leaves every task file, and its content, as the first left it.
C4_IdempotentResumption ==
    [][\A p \in Paths :
          (/\ WorkspaceManagerInit(p)
           /\ last.op = "init" /\ last.effect # "raised"
           /\ files[last.id] = files[p])
              => /\ last'.effect # "raised"
                 /\ mgr'.content_hash = mgr.content_hash
                 /\ tree' = tree]_vars

\* a second construction, from the byte-identical copy, that found the task files of
\* the first
C4_Witness ==
    /\ last.op = "init" /\ last.again /\ last.id = "in2"
    /\ listdir(Ws, "todo") # {}

\* ------------------------------------- concurrent transitions: SpecWs
\* an input of MaxRecords rows with distinct file names
PackageNames == <<"c1", "c2", "c3", "c4", "c5", "c6">>

WsRows ==
    [i \in 1..MaxRecords |->
        [domain |-> <<"dom">>, repository |-> <<"repo">>, format |-> <<"npm">>,
         namespace |-> IF i % 2 = 0 THEN <<"a">> ELSE <<>>, package |-> <<PackageNames[i]>>,
         upstream |-> "BLOCK", publish |-> IF i % 2 = 0 THEN "ALLOW" ELSE "BLOCK"]]

InitWs ==
    /\ files = [p \in Paths |-> WsRows]
    /\ home = FALSE
    /\ tree = [h \in {} |-> NewWorkspace]
    /\ mgr = NoMgr
    /\ last = NoCall
    /\ wk = [t \in Threads |-> Idle]
    /\ rt = NoFiles
    /\ run = NoRun
    /\ remote = NoFiles
    /\ bk = NoBk
    /\ backups = NoFiles

\* one process: the manager is constructed once, threads make transitions, the
\* workspace is deleted
NextWs ==
    \/ ~HasMgr /\ WorkspaceManagerInit("in1")
    \/ \E t \in Threads, op \in TransitionOps :
          \E filename \in TaskNames(files["in1"]) : Begin(t, op, filename)
    \/ \E t \in Threads : Check(t)
    \/ \E t \in Threads : Move(t)
    \/ \E force \in BOOLEAN : DeleteWorkspace(force)

SpecWs == InitWs /\ [][NextWs]_vars

\* -------------------------------------------------- claims on transitions
\* the folders of the workspace that hold the file
Holders(w, filename) == {folder \in Folders : exists(w, folder, filename)}

\* what population wrote for the file
Populated(rows, filename) == write_rows(NoFiles, rows)[filename]

\* C1: after workspace creation and until destroy, under any interleaving of
\* move_to_done, move_to_error and move_to_retry by concurrent workers on different
\* task ids, every task id created at population is in exactly one of todo, error, done.
C1_ExactlyOneCollection ==
    (HasMgr /\ mgr.content_hash \in DOMAIN tree) =>
        \A filename \in TaskNames(files[mgr.input_file_path]) :
            Cardinality(Holders(Ws, filename)) = 1

\* two workers inside a transition at once, on different files, with error and done
\* both holding a file
C1_Witness ==
    /\ HasMgr /\ mgr.content_hash \in DOMAIN tree
    /\ wk[1].pc = "move" /\ wk[2].pc = "move" /\ wk[1].id # wk[2].id
    /\ listdir(Ws, "error") # {} /\ listdir(Ws, "done") # {}

\* C5: move_to_error moves the file from todo to error only when error holds no file
\* of that id; when the file is already in error the call changes nothing and
\* returns: the file stays in error with its content.
C5_FirstFailureWins ==
    [][(HasMgr /\ mgr.content_hash \in DOMAIN tree) =>
          \A filename \in TaskNames(files[mgr.input_file_path]) :
              MarkCall("move_to_error", filename) =>
                  LET w == tree[mgr.content_hash]
                      post == tree'[mgr.content_hash]
                  IN /\ exists(w, "error", filename) =>
                        (tree' = tree /\ last'.effect = "noop")
                     /\ (~exists(w, "error", filename) /\ exists(w, "todo", filename)) =>
                        /\ Holders(post, filename) = {"error"}
                        /\ post.error[filename] = w.todo[filename]
                     /\ tree' # tree => exists(w, "todo", filename)]_vars

\* a move_to_error on a file already in error, which returned without moving it
C5_Witness ==
    /\ last.op = "move_to_error" /\ last.effect = "noop"
    /\ exists(Ws, "error", last.id)

\* C6: for a file in todo, move_to_error, move_to_retry, move_to_done in sequence end
\* with the file in done and in neither todo nor error, its content unchanged;
\* move_to_retry alone moves a file of error to todo.
C6_RetryRoundTrip ==
    \A filename \in DOMAIN rt :
        /\ rt[filename] = 3 =>
              /\ Holders(Ws, filename) = {"done"}
              /\ Ws.done[filename] = Populated(files[mgr.input_file_path], filename)
        /\ rt[filename] \in {2, 4} =>
              /\ Holders(Ws, filename) = {"todo"}
              /\ Ws.todo[filename] = Populated(files[mgr.input_file_path], filename)

\* a file that went todo, error, todo, done by those three calls
C6_Witness == \E filename \in DOMAIN rt : rt[filename] = 3 /\ exists(Ws, "done", filename)

\* --------------------------------------------------------- runs: SpecRun
\* CodeArtifact holds restrictions for every package of the input
InitRun ==
    /\ files = [p \in Paths |-> WsRows]
    /\ home = FALSE
    /\ tree = [h \in {} |-> NewWorkspace]
    /\ mgr = NoMgr
    /\ last = NoCall
    /\ wk = [t \in Threads |-> Idle]
    /\ rt = NoFiles
    /\ run = NoRun
    /\ remote = [k \in {CompositeKey(WsRows[i]) : i \in 1..Len(WsRows)} |->
                    [upstream |-> "ALLOW", publish |-> "ALLOW"]]
    /\ bk = NoBk
    /\ backups = NoFiles

\* runs of the command on one input, one after the other
NextRun ==
    \/ \E cfg \in Cfgs : Dispatch(cfg)
    \/ \E t \in Threads : Take(t)
    \/ \E t \in Threads : Confirm(t)
    \/ \E t \in Threads : Backup(t)
    \/ \E t \in Threads : Apply(t)
    \/ \E t \in Threads : Check(t)
    \/ \E t \in Threads : Move(t)
    \/ Report
    \/ Cleanup
    \/ ForcedDelete

SpecRun == InitRun /\ [][NextRun]_vars

\* ------------------------------------------------ interrupted runs: SpecKill
\* the command lines without prompts
KillCfgs == {cfg \in Cfgs : ~cfg.ask_confirmation}

\* runs of the command on one input, any of which may be terminated
NextKill ==
    \/ \E cfg \in KillCfgs : Dispatch(cfg)
    \/ \E t \in Threads : Take(t)
    \/ \E t \in Threads : Backup(t)
    \/ \E t \in Threads : Apply(t)
    \/ \E t \in Threads : Check(t)
    \/ \E t \in Threads : Move(t)
    \/ Report
    \/ Cleanup
    \/ ForcedDelete
    \/ Kill

SpecKill == InitRun /\ [][NextKill]_vars

\* ------------------------------------------------ listing failures: SpecList
\* runs of the command on one input, and calls of it with --list-failed
NextList ==
    \/ \E cfg \in KillCfgs : Dispatch(cfg)
    \/ \E cfg \in Cfgs : ListFailed(cfg)
    \/ \E t \in Threads : Take(t)
    \/ \E t \in Threads : Backup(t)
    \/ \E t \in Threads : Apply(t)
    \/ \E t \in Threads : Check(t)
    \/ \E t \in Threads : Move(t)
    \/ Report
    \/ Cleanup
    \/ ForcedDelete

SpecList == InitRun /\ [][NextList]_vars

\* ------------------------------------------------ fair runs: SpecFair
\* a step of worker thread t
WorkerStep(t) == Take(t) \/ Backup(t) \/ Apply(t) \/ Check(t) \/ Move(t)

\* runs without prompts, one after the other
NextFair ==
    \/ \E cfg \in KillCfgs : Dispatch(cfg)
    \/ \E t \in Threads : Take(t)
    \/ \E t \in Threads : Backup(t)
    \/ \E t \in Threads : Apply(t)
    \/ \E t \in Threads : Check(t)
    \/ \E t \in Threads : Move(t)
    \/ Report
    \/ Cleanup
    \/ ForcedDelete

\* a thread of the pool that can take a step does, the calls of the client return or
\* raise, and the main thread goes on when thread_map returns
SpecFair ==
    /\ InitRun
    /\ [][NextFair]_vars
    /\ \A t \in Threads : WF_vars(WorkerStep(t))
    /\ WF_vars(Report)
    /\ WF_vars(Cleanup)

\* ------------------------------------------------ the command: SpecMain
\* --repository
ArgsRepository == <<"repo">>

\* validate_header: the fields of the rows are those of CSV_HEADER
validate_header(rows) ==
    \A i \in 1..Len(rows) : DOMAIN rows[i] = {CSV_HEADER[k] : k \in 1..Len(CSV_HEADER)}

\* validate_line without the test of publish
validate_line_upstream_only(line) ==
    /\ line.domain = ArgsDomain
    /\ line.repository = ArgsRepository
    /\ line.upstream \in ALLOWED_FLAG_VALUES

\* validate_line(line, line_number) returns
validate_line(line) ==
    /\ line.domain = ArgsDomain
    /\ line.repository = ArgsRepository
    /\ line.upstream \in ALLOWED_FLAG_VALUES
    /\ line.publish \in ALLOWED_FLAG_VALUES

\* validate_file(): raised, and the number of the first line that made it raise
validate_file(rows) ==
    LET bad == {i \in 1..Len(rows) : ~validate_line(rows[i])}
    IN IF ~validate_header(rows) THEN [raised |-> TRUE, line_num |-> 0]
       ELSE IF bad # {}
       THEN [raised |-> TRUE, line_num |-> CHOOSE i \in bad : \A j \in bad : i <= j]
       ELSE [raised |-> FALSE, line_num |-> Len(rows)]

\* __main__: validate_file(), then dispatch_work() unless --validate-only
Main(cfg, validate_only) ==
    IF validate_file(files["in1"]).raised
    THEN /\ run.phase \in {"idle", "invalid"}
         /\ run' = [NoRun EXCEPT !.phase = "invalid"]
         /\ UNCHANGED <<files, home, tree, mgr, last, wk, rt, remote, bk, backups>>
    ELSE IF validate_only
    THEN /\ run.phase \in {"idle", "exited", "aborted", "refused"}
         /\ AllIdle
         /\ run' = [NoRun EXCEPT !.phase = "exited"]
         /\ UNCHANGED <<files, home, tree, mgr, last, wk, rt, remote, bk, backups>>
    ELSE Dispatch(cfg)

\* the rows an input may hold for the one package: right or wrong domain and
\* repository, valid or invalid flags
MainRecords ==
    [domain : {<<"dom">>, <<"other">>}, repository : {<<"repo">>, <<"other">>},
     format : {<<"npm">>}, namespace : {<<>>}, package : {<<"c1">>},
     upstream : {"BLOCK", "MAYBE"}, publish : {"ALLOW", "MAYBE"}]

\* CodeArtifact before the first run
RemoteAtStart ==
    [k \in {CompositeKey(WsRows[i]) : i \in 1..Len(WsRows)} |->
        [upstream |-> "ALLOW", publish |-> "ALLOW"]]

InitMain ==
    /\ files \in [Paths -> SeqUpTo(MainRecords, MaxRecords)]
    /\ files["in2"] = <<>>
    /\ home = FALSE
    /\ tree = [h \in {} |-> NewWorkspace]
    /\ mgr = NoMgr
    /\ last = NoCall
    /\ wk = [t \in Threads |-> Idle]
    /\ rt = NoFiles
    /\ run = NoRun
    /\ remote = RemoteAtStart
    /\ bk = NoBk
    /\ backups = NoFiles

\* the command run on the input, again and again
NextMain ==
    \/ \E cfg \in Cfgs, validate_only \in BOOLEAN : Main(cfg, validate_only)
    \/ \E t \in Threads : Take(t)
    \/ \E t \in Threads : Confirm(t)
    \/ \E t \in Threads : Backup(t)
    \/ \E t \in Threads : Apply(t)
    \/ \E t \in Threads : Check(t)
    \/ \E t \in Threads : Move(t)
    \/ Report
    \/ Cleanup
    \/ ForcedDelete

SpecMain == InitMain /\ [][NextMain]_vars

\* ------------------------------------------- runs with the backup: SpecBk
\* the command lines with the backup, without prompts
BkCfgs == {cfg \in Cfgs : ~cfg.no_backup /\ ~cfg.ask_confirmation
                             /\ ~cfg.delete_workspace}

\* runs with the backup, one after the other, and the writer thread of each.  The
\* steps of the writer thread change bk and backups only, which no step of NextRun
\* reads but for the existence of the file, so NextRun leaves them out.
NextBk ==
    \/ \E cfg \in BkCfgs : Dispatch(cfg)
    \/ \E t \in Threads : Take(t)
    \/ \E t \in Threads : Backup(t)
    \/ \E t \in Threads : Apply(t)
    \/ \E t \in Threads : Check(t)
    \/ \E t \in Threads : Move(t)
    \/ Report
    \/ Cleanup
    \/ WriteHeader
    \/ Get
    \/ WriteRow
    \/ Flush

SpecBk == InitRun /\ [][NextBk]_vars

\* ------------------------------------------- backup, then restore: SpecRestore
\* the command lines of a restore: without prompts
RestoreCfgs == {cfg \in Cfgs : ~cfg.ask_confirmation /\ ~cfg.delete_workspace
                                  /\ ~cfg.no_backup}

\* the command lines of the first run of the input: with the backup, without
\* prompts, the workspace deleted when it is clean
FirstCfgs == {cfg \in BkCfgs : ~cfg.retry_failed /\ ~cfg.conserve_workspace}

\* the first run of the input, then runs with --restore, and the writer thread of
\* the backup
NextRestore ==
    \/ run.phase = "idle" /\ \E cfg \in FirstCfgs : Dispatch(cfg)
    \/ \E cfg \in RestoreCfgs : DispatchRestore(cfg)
    \/ \E t \in Threads : Take(t)
    \/ \E t \in Threads : Backup(t)
    \/ \E t \in Threads : Apply(t)
    \/ \E t \in Threads : Check(t)
    \/ \E t \in Threads : Move(t)
    \/ Report
    \/ Cleanup
    \/ WriteHeader
    \/ Get
    \/ WriteRow
    \/ Flush

SpecRestore == InitRun /\ [][NextRestore]_vars

\* ---------------------------------------------------------- claims on runs
\* C7: delete_workspace without force deletes the workspace tree if and only if the
\* workspace is clean (done non-empty, todo and error empty) and otherwise leaves every
\* task file in place; with force it always deletes it.  So the delete without force
\* that ends a run never deletes a workspace that holds a task in todo or in error.
C7_DeleteOnlyCleanUnlessForced ==
    [][(HasMgr /\ mgr.content_hash \in DOMAIN tree) =>
          LET h == mgr.content_hash
              clean == /\ listdir(tree[h], "done") # {}
                       /\ listdir(tree[h], "todo") = {}
                       /\ listdir(tree[h], "error") = {}
          IN /\ Deletion(TRUE) => h \notin DOMAIN tree'
             /\ Deletion(FALSE) => /\ (h \notin DOMAIN tree') <=> clean
                                   /\ ~clean => tree' = tree
             /\ ForcedDelete => h \notin DOMAIN tree'
             /\ Cleanup => /\ (h \notin DOMAIN tree') <=>
                                 (clean /\ ~run.cfg.conserve_workspace)
                           /\ (h \in DOMAIN tree') => tree' = tree
                           /\ (listdir(tree[h], "todo") \cup listdir(tree[h], "error")) # {}
                                 => tree' = tree]_vars

\* a delete without force that was refused with a task left in error
C7_Witness ==
    /\ run.phase = "exited"
    /\ last.op = "delete_workspace" /\ last.id = FALSE /\ last.effect = "kept"
    /\ listdir(Ws, "error") # {}

\* the folder the tasks of the run were listed in
Listed == IF run.cfg.retry_failed THEN "error" ELSE "todo"

\* C8: for every task a thread took, if a step of the try block raised (confirmation,
\* reader, get_restrictions, do_backup, apply_restrictions), error_callback is called
\* exactly once, done_callback is not called and the outcome is False; if every step
\* returned, done_callback is called exactly once, error_callback is not called and the
\* outcome is True.
C8_CallbackMatchesTry ==
    \A id \in DOMAIN run.calls :
        LET c == run.calls[id]
        IN /\ c.fate = "raised" => c.error = 1 /\ c.done = 0
           /\ c.fate = "completed" => c.done = 1 /\ c.error = 0
           /\ c.fate \in {"none", "declined"} => c.done = 0 /\ c.error = 0
           /\ id \in DOMAIN run.proc =>
                 /\ c.fate \in {"raised", "completed", "declined"}
                 /\ c.fate = "raised" => run.proc[id] = "False"
                 /\ c.fate = "completed" => run.proc[id] = "True"

\* a run returned with a task whose apply_restrictions raised and a task whose steps
\* all returned
C8_Witness ==
    /\ run.phase = "reported"
    /\ \E id \in DOMAIN run.proc :
          /\ run.calls[id].fate = "raised" /\ run.calls[id].apply = 1
          /\ run.proc[id] = "False"
    /\ \E id \in DOMAIN run.proc :
          run.calls[id].fate = "completed" /\ run.proc[id] = "True"

\* C9: a step that raises in one task never ends the run and never changes the outcome
\* of another task: no exception leaves a task, every task of the listing returns, and
\* a task that returned is in the folder of its own outcome (error when a step raised,
\* done when all returned, the listed folder when the user declined) whatever the
\* other tasks did.
C9_FailureIsolation ==
    /\ run.phase # "aborted"
    /\ ~Escaped
    /\ run.phase = "reported" => DOMAIN run.proc = run.snapshot
    /\ run.phase \in {"running", "reported"} =>
          \A id \in DOMAIN run.proc :
              Holders(Ws, id) =
                  CASE run.calls[id].fate = "raised" -> {"error"}
                    [] run.calls[id].fate = "completed" -> {"done"}
                    [] OTHER -> {Listed}

\* a run of retried tasks returned: one task failed again, another went to done
C9_Witness ==
    /\ run.phase = "reported" /\ run.cfg.retry_failed
    /\ \E id \in run.snapshot : run.calls[id].fate = "raised"
    /\ \E id \in run.snapshot : run.calls[id].fate = "completed"

\* C10: in a run every task of the listing is taken by exactly one thread exactly
\* once: no two threads work on the same task, a task that failed is not taken again,
\* and apply_restrictions is called at most once per task.
C10_TakenOnce ==
    /\ \A id \in DOMAIN run.calls :
          /\ run.calls[id].taken <= 1
          /\ run.calls[id].apply <= 1
          /\ id \in run.queue <=> run.calls[id].taken = 0
          /\ run.phase = "reported" => run.calls[id].taken = 1
    /\ \A t, u \in Threads :
          (t # u /\ wk[t].task /\ wk[u].task) => wk[t].id # wk[u].id

\* the queue is empty, a task failed in apply_restrictions and its thread is free,
\* while another thread is still in a task
C10_Witness ==
    /\ run.phase = "running" /\ run.queue = {}
    /\ \E id \in DOMAIN run.proc :
          run.calls[id].fate = "raised" /\ run.calls[id].apply = 1
    /\ \E t \in Threads : wk[t].task /\ wk[t].pc = "apply"

\* C11: the totals are printed only after every task of the listing returned its
\* outcome, one outcome per task: the number processed is the size of the listing,
\* successes plus failures is the number processed, and successes is the number of
\* tasks of the listing the run moved to done.
C11_TotalsComplete ==
    /\ run.totals.printed =>
          /\ DOMAIN run.proc = run.snapshot
          /\ \A id \in run.snapshot : run.calls[id].taken = 1 /\ run.proc[id] \in {"True", "False"}
          /\ run.totals.processed = Cardinality(run.snapshot)
          /\ run.totals.successes + run.totals.failures = run.totals.processed
    /\ run.phase = "reported" =>
          /\ run.totals.printed
          /\ run.totals.successes =
                Cardinality({id \in run.snapshot : Holders(Ws, id) = {"done"}})

\* totals printed for a run with one task moved to done and one task failed
C11_Witness ==
    /\ run.phase = "reported"
    /\ run.totals.successes = 1 /\ run.totals.failures = 1

\* C12: with --ask-confirmation, a task the user answers N or n for undergoes no
\* transition: neither callback is called and its file stays in the folder it was
\* listed in; do_backup is not called for it, and neither get_restrictions nor
\* apply_restrictions is.
C12_DeclinedUntouched ==
    \A id \in DOMAIN run.calls :
        run.calls[id].answer \in {"N", "n"} =>
            LET c == run.calls[id]
            IN /\ c.done = 0 /\ c.error = 0
               /\ c.fetch = 0 /\ c.backup = 0 /\ c.apply = 0
               /\ \A t \in Threads : ~(wk[t].task /\ wk[t].id = id)
               /\ run.phase \in {"running", "reported"} =>
                     /\ Holders(Ws, id) = {Listed}
                     /\ Ws[Listed][id] = Populated(files[mgr.input_file_path], id)

\* a run returned in which the user declined one task and let another through,
\* which was applied
C12_Witness ==
    /\ run.phase = "reported" /\ run.cfg.ask_confirmation
    /\ \E id \in run.snapshot : run.calls[id].answer = "N"
    /\ \E id \in run.snapshot :
          run.calls[id].fate = "completed" /\ run.calls[id].apply = 1

\* C13: a task skipped by a negative answer is counted neither as a success nor as
\* a failure in the printed totals.
C13_DeclinedNotCounted ==
    run.totals.printed =>
        run.totals.successes + run.totals.failures =
            Cardinality({id \in run.snapshot : run.calls[id].fate # "declined"})

\* the tasks handed to do_backup for the task file id
HandedFor(id) ==
    {i \in DOMAIN bk.handed : FILE_NAME_PATTERN(bk.handed[i].package) = id}

\* C14: with the backup enabled the order in a task is get_restrictions, do_backup,
\* apply_restrictions, then the callback: apply_restrictions is never called for a
\* task whose restrictions were not handed to do_backup first (so not when
\* get_restrictions failed), and what was handed is what CodeArtifact held for the
\* package when apply_restrictions is called.
C14_BackupBeforeApply ==
    [][(run.phase = "running" /\ ~run.cfg.no_backup) =>
          \A t \in Threads :
              LET id == wk[t].id
                  c == run.calls[id]
                  line == reader(Ws, id).line
              IN /\ Backup(t) => c.fetch = 0 /\ c.backup = 0 /\ c.apply = 0
                                 /\ c.done = 0 /\ c.error = 0
                 /\ Apply(t) =>
                       /\ c.fetch = 1 /\ c.backup = 1 /\ c.apply = 0
                       /\ c.done = 0 /\ c.error = 0
                       /\ Cardinality(HandedFor(id)) = 1
                       /\ \A i \in HandedFor(id) :
                             /\ bk.handed[i].package = line
                             /\ bk.handed[i].origin_configuration =
                                   remote[CompositeKey(line)]
                 /\ (Check(t) \/ Move(t)) /\ wk[t].task /\ wk[t].op = "move_to_done"
                       => c.backup = 1 /\ (~run.cfg.dry_run => c.apply = 1)]_vars

\* a run with the backup returned, with a task backed up, applied and moved to done
\* and a task whose get_restrictions failed
C14_Witness ==
    /\ run.phase = "reported" /\ ~run.cfg.no_backup /\ ~run.cfg.dry_run
    /\ \E id \in run.snapshot :
          /\ run.calls[id].backup = 1 /\ run.calls[id].apply = 1
          /\ run.calls[id].done = 1
    /\ \E id \in run.snapshot :
          /\ run.calls[id].fetch = 1 /\ run.calls[id].backup = 0
          /\ run.calls[id].fate = "raised"

HandedRows == [i \in DOMAIN bk.handed |-> writerow(backup_line(bk.handed[i]))]

\* C16: for N calls of do_backup by the concurrent threads of a run, the backup file
\* ends as one header line followed by N data lines, one for each call; stated of
\* the file the process leaves when it ends.
C16_AllRowsWritten ==
    [][(Cleanup /\ bk.alive) =>
          LET f == backups'[bk.target]
          IN /\ Len(f) = 1 + Len(bk.handed)
             /\ f[1] = CSV_HEADER
             /\ \A i \in DOMAIN bk.handed :
                   \E j \in 2..Len(f) : f[j] = HandedRows[i]]_vars

\* C17 as stated: the flushed content of the backup file is always the header
\* followed by the rows of a prefix of the tasks in the order they were put on the
\* queue.
C17_HeaderThenPrefix ==
    bk.alive =>
        \E k \in 0..Len(bk.handed) :
            backups[bk.target] = <<CSV_HEADER>> \o SubSeq(HandedRows, 1, k)

\* C17: the flushed content of the backup file is empty until the first flush, and
\* from then on the header, once, followed by the rows of a prefix of the tasks in
\* the order they were put on the queue; what is written and not flushed continues
\* it in that order, and every row written is flushed before the writer thread takes
\* the next task from the queue.
C17_EmptyOrHeaderThenPrefix ==
    bk.alive =>
        LET f == backups[bk.target]
            taken == Len(bk.handed) - Len(bk.queue)
            written == IF bk.pc = "row" THEN taken - 1 ELSE taken
        IN /\ f = <<>> \/ \E k \in 0..Len(bk.handed) :
                             f = <<CSV_HEADER>> \o SubSeq(HandedRows, 1, k)
           /\ bk.pc # "header" =>
                 f \o bk.buffer = <<CSV_HEADER>> \o SubSeq(HandedRows, 1, written)
           /\ bk.pc = "header" => f = <<>> /\ bk.buffer = <<>>
           /\ bk.pc \in {"get", "row"} => bk.buffer \in {<<>>, <<CSV_HEADER>>}
           /\ bk.queue = SubSeq(bk.handed, taken + 1, Len(bk.handed))

\* the first of MaxRecords tasks is flushed after the header and the writer thread
\* is about to take the next, which is on the queue
C17_Witness ==
    /\ bk.alive /\ bk.pc = "get"
    /\ Len(bk.handed) = MaxRecords /\ bk.queue # <<>>
    /\ backups[bk.target] = <<CSV_HEADER, HandedRows[1]>>

\* C18: only the writer thread writes to the backup file: the threads that call
\* do_backup only put a task on the queue, which never makes them wait.
C18_SingleWriter ==
    /\ bk.wrote \subseteq {"writer"}
    /\ \A t \in Threads : wk[t].pc = "backup" => ENABLED Backup(t)
    /\ bk.alive => /\ Len(bk.buffer) + Len(backups[bk.target]) <= 1 + Len(bk.handed)
                   /\ Len(bk.queue) <= Len(bk.handed)

\* two threads called do_backup, one is at its call of get_restrictions again in
\* the next task or still in its task, and the writer thread wrote a row
C18_Witness ==
    /\ bk.alive /\ bk.wrote = {"writer"}
    /\ Len(bk.handed) = MaxRecords
    /\ \E t \in Threads : wk[t].task
    /\ Len(backups[bk.target]) >= 2

\* ------------------------------------------------- claims on retried runs
\* the file names of the input of the run
RunTasks == TaskNames(files[mgr.input_file_path])

\* the run is one with --retry-failed and without prompts, every task of which
\* completed
RetryAllSucceed ==
    /\ run.phase = "reported"
    /\ run.cfg.retry_failed /\ ~run.cfg.ask_confirmation
    /\ \A id \in run.snapshot : run.calls[id].fate = "completed"

\* after a run over a workspace it populated, the tasks of which F are those with a
\* failed step: done holds the tasks not in F, error holds F, todo is empty
AfterFreshRun ==
    (run.phase = "reported" /\ FreshRun) =>
        LET F == {id \in run.snapshot : run.calls[id].fate = "raised"}
        IN /\ run.snapshot = RunTasks
           /\ listdir(Ws, "error") = F
           /\ listdir(Ws, "done") = RunTasks \ F
           /\ listdir(Ws, "todo") = {}

AllInDone ==
    /\ listdir(Ws, "done") = RunTasks
    /\ listdir(Ws, "error") = {}
    /\ listdir(Ws, "todo") = {}

\* C19 as stated: after a run over a fresh workspace in which the steps fail for the
\* tasks of a set F, done holds the tasks not in F, error holds F and todo is empty;
\* after a next run with --retry-failed in which no step fails every task is in done
\* and error is empty.
C19_FailureThenRetry ==
    /\ AfterFreshRun
    /\ (RetryAllSucceed /\ run.prev \in {"fresh_kept", "fresh_deleted"}) => AllInDone

\* C19: the same, for a first run that left its workspace (F is not empty, or
\* --conserve-workspace was given).
C19_FailureThenRetryOnKeptWorkspace ==
    /\ AfterFreshRun
    /\ (RetryAllSucceed /\ run.prev = "fresh_kept") => AllInDone

\* a run with --retry-failed moved the failed tasks of the first run to done
C19_Witness ==
    /\ RetryAllSucceed /\ run.prev = "fresh_kept"
    /\ run.snapshot # {} /\ run.snapshot # RunTasks
    /\ \A id \in run.snapshot : run.calls[id].apply = 1

\* ------------------------------------------------ claims on validation
\* a record the claim calls invalid
InvalidRecord(line) ==
    \/ line.domain # <<"dom">>
    \/ line.repository # <<"repo">>
    \/ line.upstream \notin {"ALLOW", "BLOCK"}
    \/ line.publish \notin {"ALLOW", "BLOCK"}

InvalidInput == \E i \in 1..Len(files["in1"]) : InvalidRecord(files["in1"][i])

\* C20: when a record of the input is invalid (domain or repository not the
\* configured one, upstream or publish not ALLOW or BLOCK) the command ends before
\* the workspace is made: no workspace directory and no task file is created, no
\* backup file is opened and CodeArtifact is not called.
C20_ValidationFirst ==
    InvalidInput =>
        /\ home = FALSE /\ DOMAIN tree = {}
        /\ ~HasMgr
        /\ DOMAIN backups = {} /\ bk = NoBk
        /\ remote = RemoteAtStart
        /\ run.phase \in {"idle", "invalid"}
        /\ run.snapshot = {} /\ AllIdle

\* the command ended on an input whose first record is valid and whose last record
\* has an invalid publish flag
C20_Witness ==
    /\ run.phase = "invalid"
    /\ Len(files["in1"]) = MaxRecords
    /\ ~InvalidRecord(files["in1"][1])
    /\ files["in1"][MaxRecords].publish = "MAYBE"
    /\ files["in1"][MaxRecords].upstream = "BLOCK"
    /\ validate_file(files["in1"]).line_num = MaxRecords

\* --------------------------------------------- claims on interrupted runs
\* C21: when the process is terminated while a run without --retry-failed is under
\* way, every task of its listing that no thread moved yet is still in todo; the next
\* run without --retry-failed on the same input populates nothing, lists exactly the
\* tasks of todo, none of which is in done, and its threads take tasks of that listing
\* only.
C21_InterruptedRunResumes ==
    [][/\ Kill =>
             /\ tree' = tree
             /\ ~run.cfg.retry_failed =>
                   \A id \in run.snapshot :
                       (id \notin DOMAIN run.proc) => Holders(tree'[mgr.content_hash], id) = {"todo"}
       /\ \A cfg \in Cfgs :
             (/\ Dispatch(cfg) /\ run.phase = "killed"
              /\ ~cfg.retry_failed /\ ~cfg.delete_workspace) =>
                 /\ tree' = tree
                 /\ last'.effect = "resumed"
                 /\ run'.phase = "running"
                 /\ run'.snapshot = listdir(tree[mgr.content_hash], "todo")
                 /\ run'.snapshot \cap listdir(tree[mgr.content_hash], "done") = {}
       /\ \A t \in Threads :
             (Take(t) /\ run.prev = "killed" /\ ~run.cfg.retry_failed) =>
                 /\ wk'[t].id \in listdir(tree[mgr.content_hash], "todo")
                 /\ wk'[t].id \in run.snapshot
                 /\ run.calls[wk'[t].id].taken = 0
                 /\ ~exists(tree[mgr.content_hash], "done", wk'[t].id)]_vars

\* the run after a terminated one took the task the terminated run left in todo,
\* while done holds the task the terminated run moved there
C21_Witness ==
    /\ run.phase = "running" /\ run.prev = "killed" /\ ~run.cfg.retry_failed
    /\ last.effect = "resumed"
    /\ Cardinality(run.snapshot) = MaxRecords - 1
    /\ listdir(Ws, "done") # {}
    /\ \E t \in Threads : wk[t].task /\ wk[t].id \in run.snapshot

\* ------------------------------------------------ claims on --list-failed
\* the workspace of the input before a call: one that is absent holds nothing
Before == IF generate_hash("in1") \in DOMAIN tree THEN tree[generate_hash("in1")]
          ELSE NewWorkspace

\* what a call with --list-failed leaves alone and prints, for a workspace that
\* holds a task file
ListingFrame(cfg) ==
    /\ wk' = wk /\ remote' = remote
    /\ run'.calls = NoFiles /\ run'.proc = NoFiles
    /\ run'.phase = "exited" =>
          /\ DOMAIN run'.listed = listdir(Before, "error")
          /\ \A id \in listdir(Before, "error") :
                writerow(run'.listed[id]) = Before.error[id]

\* C22 as stated: a call with --list-failed prints the record of every task of error,
\* leaves todo, error and done as they are, members and content, and calls neither
\* get_restrictions nor apply_restrictions.
C22_ListingChangesNothing ==
    [][\A cfg \in Cfgs :
          ListFailed(cfg) =>
              /\ ListingFrame(cfg)
              /\ \A folder \in Folders :
                    tree'[generate_hash("in1")][folder] = Before[folder]]_vars

\* C22: the same for a workspace that holds a task file; on one that holds none
\* (absent, or with its three folders empty) the construction populates todo from the
\* input, as every construction does, and error and done stay empty.
C22_ListingChangesNoTask ==
    [][\A cfg \in Cfgs :
          ListFailed(cfg) =>
              /\ ListingFrame(cfg)
              /\ ~AllEmpty(Before) =>
                    \A folder \in Folders :
                        tree'[generate_hash("in1")][folder] = Before[folder]
              /\ AllEmpty(Before) =>
                    /\ tree'[generate_hash("in1")].todo = write_rows(NoFiles, files["in1"])
                    /\ tree'[generate_hash("in1")].error = NoFiles
                    /\ tree'[generate_hash("in1")].done = NoFiles]_vars

\* a call with --list-failed printed the record of the task of error, and todo or
\* done holds the other task
C22_Witness ==
    /\ run.phase = "exited" /\ DOMAIN run.listed # {}
    /\ last.op = "init" /\ last.effect = "resumed"
    /\ DOMAIN run.listed = listdir(Ws, "error")
    /\ listdir(Ws, "error") # RunTasks

\* ------------------------------------- claims on interrupted construction
\* C23: whatever is on disk before (home, the workspace directory, any of todo,
\* error and done, as an interrupted construction leaves them), the construction of
\* the workspace returns and todo, error and done exist under the workspace
\* directory; the directories are made in the order home, workspace directory, todo,
\* error, done; an empty input gives no task file.
C23_FoldersAfterInit ==
    /\ \A h \in DOMAIN tree :
          \E k \in 2..Len(MkdirOrder) : tree[h].dirs = {MkdirOrder[i] : i \in 3..k}
    /\ DOMAIN tree # {} => home
    /\ (last.op = "init" /\ last.effect \notin {"interrupted", "crashed"}) =>
          /\ last.effect # "raised"
          /\ home
          /\ generate_hash(last.id) \in DOMAIN tree
          /\ tree[generate_hash(last.id)].dirs = Folders
          /\ files[last.id] = <<>> => AllEmpty(tree[generate_hash(last.id)])

\* C29: when the process was terminated while create_input_files was writing the
\* task files of an input of N rows with N file names, some of them written and not
\* all, the next construction from the same input leaves every one of the N tasks in
\* exactly one of todo, error and done.
C29_NoTaskLostByCrash ==
    [][\A p \in Paths :
          (/\ WorkspaceManagerInit(p)
           /\ last.op = "init" /\ last.effect = "crashed" /\ files[last.id] = files[p]
           /\ Cardinality(TaskNames(files[p])) = Len(files[p]))
              => /\ last'.effect # "raised"
                 /\ \A filename \in TaskNames(files[p]) :
                       Cardinality(Holders(tree'[generate_hash(p)], filename)) = 1]_vars

\* --------------------------------------------- claims on the task files
\* C24: for every row of the input, whatever the order of its columns, creation
\* writes one task file that holds the seven fields of the row in the order domain,
\* repository, format, namespace, package, upstream, publish, and reader(id) returns
\* that row, all seven fields, while the file is in todo or in error, looked up in
\* todo first.
C24_RecordRoundTrip ==
    (HasMgr /\ mgr.content_hash \in DOMAIN tree) =>
        LET rows == files[mgr.input_file_path]
        IN \A i \in 1..Len(rows) :
              LET id == FILE_NAME_PATTERN(rows[i])
              IN /\ last.op = "init" /\ last.effect = "populated" => exists(Ws, "todo", id)
                 /\ (exists(Ws, "todo", id) \/ exists(Ws, "error", id)) =>
                       /\ ~reader(Ws, id).raised
                       /\ reader(Ws, id).line = rows[i]
                       /\ Ws[IF exists(Ws, "todo", id) THEN "todo" ELSE "error"][id] =
                             <<rows[i].domain, rows[i].repository, rows[i].format,
                               rows[i].namespace, rows[i].package, rows[i].upstream,
                               rows[i].publish>>

\* the rows of the input with the composite key of row i
SameKey(rows, i) == {j \in 1..Len(rows) : CompositeKey(rows[j]) = CompositeKey(rows[i])}

\* C25: when several rows of the input have one composite key, creation leaves one
\* task file for the key, which holds the last of these rows; the number of task
\* files is the number of different file names.
C25_LastDuplicateWins ==
    (last.op = "init" /\ last.effect = "populated") =>
        LET rows == files[last.id]
        IN /\ Cardinality(listdir(Ws, "todo")) = Cardinality(TaskNames(rows))
           /\ \A i \in 1..Len(rows) :
                 Cardinality(SameKey(rows, i)) > 1 =>
                     LET id == FILE_NAME_PATTERN(rows[i])
                         final == CHOOSE j \in SameKey(rows, i) :
                                      \A k \in SameKey(rows, i) : k <= j
                     IN /\ exists(Ws, "todo", id)
                        /\ Ws.todo[id] = writerow(rows[final])

\* ------------------------------------------------ claims on termination
\* every task of the listing is in done or in error
Drained == \A id \in run.snapshot : Holders(Ws, id) \in {{"done"}, {"error"}}

\* C26: with threads that are scheduled fairly, calls of the client that return or
\* raise and no prompt, a run ends: thread_map returns, the totals are printed and
\* the process exits; when thread_map has returned every task of the listing is in
\* done or in error, and after a run without --retry-failed todo holds none of them.
C26_TerminationAndDrain ==
    /\ [](run.phase = "reported" =>
            /\ Drained
            /\ DOMAIN run.proc = run.snapshot
            /\ ~run.cfg.retry_failed => listdir(Ws, "todo") = {})
    /\ (run.phase = "running") ~> (run.phase = "reported")
    /\ (run.phase = "reported") ~> (run.phase = "exited")

\* thread_map returned for a listing of MaxRecords tasks, one now in done and one in
\* error
C26_Witness ==
    /\ run.phase = "reported" /\ Cardinality(run.snapshot) = MaxRecords
    /\ Drained
    /\ listdir(Ws, "done") # {} /\ listdir(Ws, "error") # {}

\* ------------------------------------------------ claims on restore
\* C27: after a first run with the backup that moved every task to done, and a run
\* with --restore on the same input every call of which returned, CodeArtifact holds
\* for every package of the input the restrictions it held before the first run.
C27_RestoreRoundTrip ==
    (/\ run.phase = "reported" /\ run.prev = "restore_first"
     /\ ~run.cfg.dry_run /\ ~run.cfg.retry_failed
     /\ \A id \in run.snapshot : run.calls[id].fate = "completed")
        => \A i \in 1..Len(files["in1"]) :
              remote[CompositeKey(files["in1"][i])] =
                  RemoteAtStart[CompositeKey(files["in1"][i])]

\* C28: a row once flushed to the backup file of an input is in the file for good:
\* no later call of the command on the input (a run, with --retry-failed or
\* resuming, --list-failed, --delete-workspace) removes or replaces it.
C28_BackupGrowsOnly ==
    [][\A h \in DOMAIN backups :
          /\ h \in DOMAIN backups'
          /\ \A i \in 2..Len(backups[h]) :
                \E j \in 2..Len(backups'[h]) : backups'[h][j] = backups[h][i]]_vars

\* ------------------------------------------------ claims on done
\* the task files a workspace holds
TaskFiles(w) == listdir(w, "todo") \cup listdir(w, "error") \cup listdir(w, "done")

\* the moves of a task file between folders: todo to done, todo to error, error to
\* done, error to todo
Moves == {<<"todo", "done">>, <<"todo", "error">>, <<"error", "done">>, <<"error", "todo">>}

\* C30: a task file of done stays in done with its content, whatever move_to_done,
\* move_to_error and move_to_retry are called and whatever construction follows, until
\* the workspace directory is deleted; a task file changes folder only from todo to
\* done, from todo to error, from error to done and from error to todo, and a new
\* task file appears in todo only.
C30_DoneAbsorbing ==
    [][\A h \in DOMAIN tree :
          h \in DOMAIN tree' =>
              \A filename \in TaskFiles(tree[h]) \cup TaskFiles(tree'[h]) :
                  /\ exists(tree[h], "done", filename) =>
                        /\ exists(tree'[h], "done", filename)
                        /\ tree'[h].done[filename] = tree[h].done[filename]
                  /\ Holders(tree[h], filename) # Holders(tree'[h], filename) =>
                        \/ /\ Holders(tree[h], filename) = {}
                           /\ Holders(tree'[h], filename) = {"todo"}
                        \/ \E mv \in Moves : /\ Holders(tree[h], filename) = {mv[1]}
                                             /\ Holders(tree'[h], filename) = {mv[2]}]_vars

\* move_to_retry was called on a task file of done and raised, and the file is in
\* done, while todo or error holds another task
C30_Witness ==
    /\ HasMgr /\ mgr.content_hash \in DOMAIN tree
    /\ last.op = "move_to_retry" /\ last.effect = "raised"
    /\ Holders(Ws, last.id) = {"done"}
    /\ listdir(Ws, "todo") \cup listdir(Ws, "error") # {}

\* ------------------------------------------------------- the confirmation prompt
\* the pool threads that are inside get_user_confirmation: input() was called at line 47
\* for the task of the thread and has not returned
Prompting == {t \in Threads : wk[t].pc = "confirm"}

\* C31: in a run with --ask-confirmation and more than one worker, at most one thread
\* at a time is waiting for or reading a confirmation response, so the response that
\* is read belongs to the task of that one thread.
C31_PromptsMutuallyExclusive ==
    (run.phase = "running" /\ run.cfg.ask_confirmation /\ NumWorkers > 1)
        => Cardinality(Prompting) <= 1

====
